---- MODULE Spec2Model ----
(***************************************************************************)
(* Model of the sysfs GPIO registry (src/sysfs/__init__.py, class Gpio),   *)
(* the Pin it creates (src/sysfs/pin.py) and the part of the kernel's      *)
(* /sys/class/gpio tree and of the tornado IOLoop that the two classes     *)
(* touch.  One action per public method of Gpio, plus the assignments to   *)
(* the two properties (Gpio.available_pins, Pin.callback), the hardware    *)
(* line changing level and the runtime reclaiming a Pin that nothing       *)
(* refers to.  Spec runs the registry over the pins 1..MaxPin, SpecFrame   *)
(* over 1..MaxFramePin with fewer arguments.                               *)
(***************************************************************************)
EXTENDS Integers, Sequences, FiniteSets, TLC

VARIABLES available,   \* Gpio._available_pins, as the set of its members
          allocated,   \* Gpio._allocated_pins : number -> Pin
          handlers,    \* the pins the poll queue (IOLoop) holds a handler for
          exported,    \* the numbers n whose directory /sys/class/gpio/gpio<n> exists
          edgeFile,    \* content of /sys/class/gpio/gpio<n>/edge
          value,       \* content of /sys/class/gpio/gpio<n>/value (the line's level)
          orphan,      \* TRUE when some open handle on a value file belongs to
                       \* a Pin that the map does not hold
          last         \* the last call: its arguments, its outcome and the I/O it issued

vars == <<available, allocated, handlers, exported, edgeFile, value, orphan, last>>

----------------------------------------------------------------------------
(* Bounds of the model *)

\* pin numbers the caller tries; the registry is configured with a subset
MaxPin == 1
PinNumbers == 1..MaxPin

\* the pins of the registry in the runs that need a second pin beside the one
\* an operation is called on (SpecFrame)
MaxFramePin == 2

----------------------------------------------------------------------------
(* Constants of the program *)

None == "None"                       \* Python's None (absent argument)

INPUT   == "in"
OUTPUT  == "out"
RISING  == "rising"
FALLING == "falling"
BOTH    == "both"
DIRECTIONS == {INPUT, OUTPUT}
EDGES == {RISING, FALLING, BOTH}

ACTIVE_LOW_ON  == 1
ACTIVE_LOW_OFF == 0
ACTIVE_LOW_MODES == {ACTIVE_LOW_ON, ACTIVE_LOW_OFF}

SYSFS_GPIO_VALUE_LOW  == "0"
SYSFS_GPIO_VALUE_HIGH == "1"

\* The outcomes of a call.  The code raises the builtin Exception with a
\* message; each outcome is named after the error kind it stands for.
Ok                       == "ok"
InvalidPinError          == "Exception: Pin number out of range"
PinAlreadyAllocatedError == "Exception: Pin already allocated"
PinNotAllocatedError     == "Exception: Pin not allocated"
InvalidDirectionError    == "Exception: Pin direction not in DIRECTIONS"
InvalidEdgeError         == "Exception: Pin edge not in EDGES"
MissingEdgeError         == "Exception: You must supply a edge to trigger callback on"
InvalidActiveLowError    == "Exception: You must supply a value for active_low which is either 0 or 1."
KeyError                 == "KeyError"
NameError                == "NameError: name 'io_loop' is not defined"

ValidationErrors == {InvalidPinError, PinAlreadyAllocatedError, InvalidDirectionError,
                     InvalidEdgeError, InvalidActiveLowError}

----------------------------------------------------------------------------
(* Arguments the caller passes *)

\* A direction argument is a string object.  `same' tells whether it is the
\* very object the module constant INPUT names (sysfs.INPUT, as main.run
\* passes it) or an equal string built elsewhere: alloc_pin and dealloc_pin
\* compare with `is', get_pin_state and the DIRECTIONS test with `=='.
DirectionArgs == {[s |-> INPUT,   same |-> TRUE],
                  [s |-> INPUT,   same |-> FALSE],
                  [s |-> OUTPUT,  same |-> TRUE],
                  [s |-> "inout", same |-> FALSE]}

CallbackArgs  == {None, "cb"}
EdgeArgs      == {None, RISING, BOTH, "none"}
ActiveLowArgs == {0, 1, 2}

\* Python truth value of an argument: None and "" are false, and so is 0
Truthy(x) == x # None /\ x # ""
TruthyInt(k) == k # 0

\* callable(x) for the callback values of the model
callable(x) == x # None

\* '%d' % number and str(number)
Decimal(k) == ToString(k)

\* one effect of a call, as `last' logs it: the file written or read (or the
\* loop method called, or "del" for the removal of the map entry), the pin it
\* is for, the bytes
IO(f, n, data) == <<f, n, data>>

\* a call as `last' records it: the method, the pin number, the outcome, the
\* value returned ("None" if none) and the I/O issued, in order
Call(op, n, result, ret, io) ==
    [op |-> op, n |-> n, result |-> result, ret |-> ret, io |-> io]

----------------------------------------------------------------------------
(* The kernel's side of /sys/class/gpio *)

\* writing n to export creates gpio<n> with edge "none"
SysfsExport(n, exp) == exp \cup {n}

\* writing n to unexport removes gpio<n> and everything in it
SysfsUnexport(n, exp) == exp \ {n}

\* does the kernel flag the value file of an exported line when the level
\* goes to v?
EdgeMatches(e, v) == \/ e = BOTH
                     \/ e = RISING  /\ v = 1
                     \/ e = FALLING /\ v = 0

----------------------------------------------------------------------------
(* Pin (src/sysfs/pin.py) *)

\* Neither class closes the handle that Pin.__init__ opens.  When the
\* registry lets go of a Pin (the del in dealloc_pin, a raise in alloc_pin
\* after Pin() opened the file) the file is closed on the spot if nothing else
\* refers to the Pin and the runtime counts references; it stays open while
\* the caller keeps the Pin that alloc_pin returned (or the traceback), or
\* until a tracing collector runs.  The two outcomes.
Dropped(orph) == {orph, TRUE}

\* Pin.__init__: the fields are set, the value file is opened and kept, then
\* the configuration files are written.  Gives the outcome, the I/O issued up
\* to the return or the raise, the Pin and the edge file's new content.  The
\* Pin record has the fields that the registry, the loop or the callback
\* setter touch; _active_low is set once and read by its getter only, and its
\* value is in the active_low write.
PinInit(number, direction, callback, edge, active_low, edgeBefore) ==
    LET pin    == [number |-> number, direction |-> direction, callback |-> callback]
        ioOpen == <<IO("open value", number, "r+")>>
        ioDir  == ioOpen \o <<IO("direction", number, direction.s)>>
        ioEdge == IF Truthy(edge) THEN ioDir \o <<IO("edge", number, edge)>> ELSE ioDir
        edgeAfter == IF Truthy(edge) THEN edge ELSE edgeBefore
    IN  IF Truthy(callback) /\ ~Truthy(edge)
          THEN [result |-> MissingEdgeError, io |-> ioOpen, pin |-> pin, edge |-> edgeBefore]
        ELSE IF TruthyInt(active_low) /\ active_low \notin ACTIVE_LOW_MODES
          THEN [result |-> InvalidActiveLowError, io |-> ioEdge, pin |-> pin, edge |-> edgeAfter]
        ELSE IF TruthyInt(active_low)
          THEN [result |-> Ok,
                io |-> ioEdge \o <<IO("active_low", number, Decimal(active_low))>>,
                pin |-> pin, edge |-> edgeAfter]
        ELSE [result |-> Ok, io |-> ioEdge, pin |-> pin, edge |-> edgeAfter]

\* Pin.set / Pin.reset that leave the handle behind the character written
PinWrite_no_seek(number, text) == <<IO("write value", number, text)>>

\* Pin.set / Pin.reset: write through the kept handle, then seek(0)
PinWrite(number, text) == <<IO("write value", number, text), IO("seek value", number, "0")>>

\* Pin.read: read through the kept handle, then seek(0); int(val)
PinRead(number, level) == <<IO("read value", number, Decimal(level)), IO("seek value", number, "0")>>

\* Pin.changed: the callback is called with (pin, state) when it is callable
PinChanged(pin, state) ==
    IF callable(pin.callback) THEN <<IO("callback", pin.number, Decimal(state))>> ELSE <<>>

----------------------------------------------------------------------------
(* Gpio (src/sysfs/__init__.py): private methods *)

\* _check_pin_validity without its second test
check_pin_validity_no_allocated_test(number, avail, alloc) ==
    IF number \notin avail THEN InvalidPinError ELSE Ok

\* _check_pin_validity without its first test
check_pin_validity_no_available_test(number, avail, alloc) ==
    IF number \in DOMAIN alloc THEN PinAlreadyAllocatedError ELSE Ok

\* Gpio._check_pin_validity: the exception it raises, or Ok
check_pin_validity(number, avail, alloc) ==
    IF number \notin avail THEN InvalidPinError
    ELSE IF number \in DOMAIN alloc THEN PinAlreadyAllocatedError
    ELSE Ok

\* _check_pin_already_exported that never finds the directory
check_pin_already_exported_never(number, exp) == FALSE

\* Gpio._check_pin_already_exported: os.path.isdir of the pin's directory
check_pin_already_exported(number, exp) == number \in exp

\* The module binds os, logging, partial, IOLoop, Pin and logger (and its own
\* constants); the name io_loop is bound nowhere in it.
io_loop_bound == FALSE

\* Gpio._poll_queue_register_pin: the arguments of add_handler are evaluated
\* before the call, and the third one reads the global io_loop.
poll_queue_register_pin(number, h) ==
    IF io_loop_bound
      THEN [result |-> Ok, handlers |-> h \cup {number},
            io |-> <<IO("add_handler", number, "READ|EPOLLET")>>]
      ELSE [result |-> NameError, handlers |-> h, io |-> <<>>]

\* Gpio._poll_queue_unregister_pin: IOLoop.remove_handler drops the entry,
\* if there is one
poll_queue_unregister_pin(number, h) ==
    [handlers |-> h \ {number}, io |-> <<IO("remove_handler", number, "")>>]

\* Gpio._poll_queue_event: pin.changed(pin.read())
poll_queue_event(pin, level) == PinRead(pin.number, level) \o PinChanged(pin, level)

----------------------------------------------------------------------------
(* Gpio: public methods, one action each *)

\* alloc_pin without the test of the edge: Pin() is left to find a missing one
alloc_validate_no_edge_test(number, direction, callback, edge, avail, alloc) ==
    LET valid == check_pin_validity(number, avail, alloc)
    IN  IF valid # Ok THEN valid
        ELSE IF direction.s \notin DIRECTIONS THEN InvalidDirectionError
        ELSE Ok

\* Gpio.alloc_pin, up to the export: the three tests, in the code's order
alloc_validate(number, direction, callback, edge, avail, alloc) ==
    LET valid == check_pin_validity(number, avail, alloc)
    IN  IF valid # Ok THEN valid
        ELSE IF direction.s \notin DIRECTIONS THEN InvalidDirectionError
        ELSE IF Truthy(callback) /\ edge \notin EDGES THEN InvalidEdgeError
        ELSE Ok

\* alloc_pin that empties the map when Pin() raises
alloc_pin_failure_clears_map(number, direction, callback, edge, active_low) ==
    LET valid   == alloc_validate(number, direction, callback, edge, available, allocated)
        present == check_pin_already_exported(number, exported)
        ioExp   == IF present THEN <<>> ELSE <<IO("export", number, Decimal(number))>>
        edge0   == IF present THEN edgeFile[number] ELSE "none"
        P       == PinInit(number, direction, callback, edge, active_low, edge0)
        isInput == direction.s = INPUT /\ direction.same      \* direction is INPUT
        R       == poll_queue_register_pin(number, handlers)
    IN  IF valid # Ok
          THEN /\ last' = Call("alloc_pin", number, valid, None, <<>>)
               /\ UNCHANGED <<available, allocated, handlers, exported, edgeFile, value, orphan>>
        ELSE /\ exported' = SysfsExport(number, exported)
             /\ edgeFile' = [edgeFile EXCEPT ![number] = P.edge]
             /\ UNCHANGED <<available, value>>
             /\ IF P.result # Ok
                  THEN \* Pin() raised: the line stays exported and partly configured
                       /\ last' = Call("alloc_pin", number, P.result, None, ioExp \o P.io)
                       /\ orphan' \in Dropped(orphan)
                       /\ allocated' = <<>>
                       /\ UNCHANGED handlers
                ELSE IF isInput /\ R.result # Ok
                  THEN \* the registration raised: the Pin is dropped, the line stays
                       /\ last' = Call("alloc_pin", number, R.result, None,
                                       ioExp \o P.io \o R.io)
                       /\ handlers' = R.handlers
                       /\ orphan' \in Dropped(orphan)
                       /\ UNCHANGED allocated
                ELSE /\ handlers' = IF isInput THEN R.handlers ELSE handlers
                     /\ allocated' = (number :> P.pin) @@ allocated
                     /\ UNCHANGED orphan
                     /\ last' = Call("alloc_pin", number, Ok, "Pin",
                                     ioExp \o P.io \o (IF isInput THEN R.io ELSE <<>>))

\* Gpio.alloc_pin
alloc_pin(number, direction, callback, edge, active_low) ==
    LET valid   == alloc_validate(number, direction, callback, edge, available, allocated)
        present == check_pin_already_exported(number, exported)
        ioExp   == IF present THEN <<>> ELSE <<IO("export", number, Decimal(number))>>
        edge0   == IF present THEN edgeFile[number] ELSE "none"
        P       == PinInit(number, direction, callback, edge, active_low, edge0)
        isInput == direction.s = INPUT /\ direction.same      \* direction is INPUT
        R       == poll_queue_register_pin(number, handlers)
    IN  IF valid # Ok
          THEN /\ last' = Call("alloc_pin", number, valid, None, <<>>)
               /\ UNCHANGED <<available, allocated, handlers, exported, edgeFile, value, orphan>>
        ELSE /\ exported' = SysfsExport(number, exported)
             /\ edgeFile' = [edgeFile EXCEPT ![number] = P.edge]
             /\ UNCHANGED <<available, value>>
             /\ IF P.result # Ok
                  THEN \* Pin() raised: the line stays exported and partly configured
                       /\ last' = Call("alloc_pin", number, P.result, None, ioExp \o P.io)
                       /\ orphan' \in Dropped(orphan)
                       /\ UNCHANGED <<allocated, handlers>>
                ELSE IF isInput /\ R.result # Ok
                  THEN \* the registration raised: the Pin is dropped, the line stays
                       /\ last' = Call("alloc_pin", number, R.result, None,
                                       ioExp \o P.io \o R.io)
                       /\ handlers' = R.handlers
                       /\ orphan' \in Dropped(orphan)
                       /\ UNCHANGED allocated
                ELSE /\ handlers' = IF isInput THEN R.handlers ELSE handlers
                     /\ allocated' = (number :> P.pin) @@ allocated
                     /\ UNCHANGED orphan
                     /\ last' = Call("alloc_pin", number, Ok, "Pin",
                                     ioExp \o P.io \o (IF isInput THEN R.io ELSE <<>>))

\* dealloc_pin that writes unexport before it looks the pin up
dealloc_pin_unexport_first(number) ==
    LET isInput == number \in DOMAIN allocated /\ allocated[number].direction.s = INPUT
                                               /\ allocated[number].direction.same
        U       == poll_queue_unregister_pin(number, handlers)
    IN  /\ exported' = SysfsUnexport(number, exported)
        /\ edgeFile' = [edgeFile EXCEPT ![number] = "none"]
        /\ handlers' = IF isInput THEN U.handlers ELSE handlers
        /\ allocated' = [m \in DOMAIN allocated \ {number} |-> allocated[m]]
        /\ orphan' \in (IF number \in DOMAIN allocated THEN Dropped(orphan) ELSE {orphan})
        /\ last' = IF number \notin DOMAIN allocated
                     THEN Call("dealloc_pin", number, PinNotAllocatedError, None,
                               <<IO("unexport", number, Decimal(number))>>)
                     ELSE Call("dealloc_pin", number, Ok, None,
                               <<IO("unexport", number, Decimal(number))>> \o
                               (IF isInput THEN U.io ELSE <<>>) \o
                               <<IO("del", number, "")>>)
        /\ UNCHANGED <<available, value>>

\* dealloc_pin that forgets to delete the map entry
dealloc_pin_keeps_entry(number) ==
    IF number \notin DOMAIN allocated
      THEN /\ last' = Call("dealloc_pin", number, PinNotAllocatedError, None, <<>>)
           /\ UNCHANGED <<available, allocated, handlers, exported, edgeFile, value, orphan>>
      ELSE LET pin == allocated[number]
               isInput == pin.direction.s = INPUT /\ pin.direction.same
               U   == poll_queue_unregister_pin(number, handlers)
           IN  /\ exported' = SysfsUnexport(number, exported)
               /\ edgeFile' = [edgeFile EXCEPT ![number] = "none"]
               /\ handlers' = IF isInput THEN U.handlers ELSE handlers
               /\ last' = Call("dealloc_pin", number, Ok, None,
                                <<IO("unexport", number, Decimal(number))>> \o
                                (IF isInput THEN U.io ELSE <<>>))
               /\ UNCHANGED <<available, allocated, value, orphan>>

\* dealloc_pin that unregisters the pin whatever its direction
dealloc_pin_unregisters_always(number) ==
    IF number \notin DOMAIN allocated
      THEN /\ last' = Call("dealloc_pin", number, PinNotAllocatedError, None, <<>>)
           /\ UNCHANGED <<available, allocated, handlers, exported, edgeFile, value, orphan>>
      ELSE LET pin == allocated[number]
               isInput == TRUE
               U   == poll_queue_unregister_pin(number, handlers)
           IN  /\ exported' = SysfsUnexport(number, exported)
               /\ edgeFile' = [edgeFile EXCEPT ![number] = "none"]
               /\ handlers' = IF isInput THEN U.handlers ELSE handlers
               /\ allocated' = [m \in DOMAIN allocated \ {number} |-> allocated[m]]
               /\ orphan' \in Dropped(orphan)
               /\ last' = Call("dealloc_pin", number, Ok, None,
                                <<IO("unexport", number, Decimal(number))>> \o
                                (IF isInput THEN U.io ELSE <<>>) \o
                                <<IO("del", number, "")>>)
               /\ UNCHANGED <<available, value>>

\* Gpio.dealloc_pin
dealloc_pin(number) ==
    IF number \notin DOMAIN allocated
      THEN /\ last' = Call("dealloc_pin", number, PinNotAllocatedError, None, <<>>)
           /\ UNCHANGED <<available, allocated, handlers, exported, edgeFile, value, orphan>>
      ELSE LET pin == allocated[number]
               isInput == pin.direction.s = INPUT /\ pin.direction.same  \* is INPUT
               U   == poll_queue_unregister_pin(number, handlers)
           IN  /\ exported' = SysfsUnexport(number, exported)
               /\ edgeFile' = [edgeFile EXCEPT ![number] = "none"]
               /\ handlers' = IF isInput THEN U.handlers ELSE handlers
               /\ allocated' = [m \in DOMAIN allocated \ {number} |-> allocated[m]]
               /\ orphan' \in Dropped(orphan)
               /\ last' = Call("dealloc_pin", number, Ok, None,
                                <<IO("unexport", number, Decimal(number))>> \o
                                (IF isInput THEN U.io ELSE <<>>) \o
                                <<IO("del", number, "")>>)
               /\ UNCHANGED <<available, value>>

\* Gpio.get_pin: self._allocated_pins[number], with no test before it
get_pin(number) ==
    /\ last' = IF number \in DOMAIN allocated
                 THEN Call("get_pin", number, Ok, "Pin", <<>>)
                 ELSE Call("get_pin", number, KeyError, None, <<>>)
    /\ UNCHANGED <<available, allocated, handlers, exported, edgeFile, value, orphan>>

\* Gpio.set_pin
set_pin(number) ==
    IF number \notin DOMAIN allocated
      THEN /\ last' = Call("set_pin", number, PinNotAllocatedError, None, <<>>)
           /\ UNCHANGED <<available, allocated, handlers, exported, edgeFile, value, orphan>>
      ELSE /\ value' = [value EXCEPT ![number] = 1]
           /\ last' = Call("set_pin", number, Ok, None,
                            PinWrite(number, SYSFS_GPIO_VALUE_HIGH))
           /\ UNCHANGED <<available, allocated, handlers, exported, edgeFile, orphan>>

\* Gpio.reset_pin
reset_pin(number) ==
    IF number \notin DOMAIN allocated
      THEN /\ last' = Call("reset_pin", number, PinNotAllocatedError, None, <<>>)
           /\ UNCHANGED <<available, allocated, handlers, exported, edgeFile, value, orphan>>
      ELSE /\ value' = [value EXCEPT ![number] = 0]
           /\ last' = Call("reset_pin", number, Ok, None,
                            PinWrite(number, SYSFS_GPIO_VALUE_LOW))
           /\ UNCHANGED <<available, allocated, handlers, exported, edgeFile, orphan>>

\* get_pin_state that reads the value before it unregisters the pin
get_pin_state_reads_first(number) ==
    IF number \notin DOMAIN allocated
      THEN /\ last' = Call("get_pin_state", number, PinNotAllocatedError, None, <<>>)
           /\ UNCHANGED <<available, allocated, handlers, exported, edgeFile, value, orphan>>
      ELSE LET pin == allocated[number]
               isInput == pin.direction.s = INPUT
               U   == poll_queue_unregister_pin(number, handlers)
               val == value[number]
           IN  /\ handlers' = IF isInput THEN U.handlers ELSE handlers
               /\ last' = Call("get_pin_state", number, Ok,
                                IF val <= 0 THEN "False" ELSE "True",
                                PinRead(number, val) \o (IF isInput THEN U.io ELSE <<>>))
               /\ UNCHANGED <<available, allocated, exported, edgeFile, value, orphan>>

\* get_pin_state that unregisters the pin whatever its direction
get_pin_state_unregisters_always(number) ==
    IF number \notin DOMAIN allocated
      THEN /\ last' = Call("get_pin_state", number, PinNotAllocatedError, None, <<>>)
           /\ UNCHANGED <<available, allocated, handlers, exported, edgeFile, value, orphan>>
      ELSE LET pin == allocated[number]
               isInput == TRUE
               U   == poll_queue_unregister_pin(number, handlers)
               val == value[number]
           IN  /\ handlers' = IF isInput THEN U.handlers ELSE handlers
               /\ last' = Call("get_pin_state", number, Ok,
                                IF val <= 0 THEN "False" ELSE "True",
                                (IF isInput THEN U.io ELSE <<>>) \o PinRead(number, val))
               /\ UNCHANGED <<available, allocated, exported, edgeFile, value, orphan>>

\* Gpio.get_pin_state
get_pin_state(number) ==
    IF number \notin DOMAIN allocated
      THEN /\ last' = Call("get_pin_state", number, PinNotAllocatedError, None, <<>>)
           /\ UNCHANGED <<available, allocated, handlers, exported, edgeFile, value, orphan>>
      ELSE LET pin == allocated[number]
               isInput == pin.direction.s = INPUT
               U   == poll_queue_unregister_pin(number, handlers)
               val == value[number]
           IN  /\ handlers' = IF isInput THEN U.handlers ELSE handlers
               /\ last' = Call("get_pin_state", number, Ok,
                                IF val <= 0 THEN "False" ELSE "True",
                                (IF isInput THEN U.io ELSE <<>>) \o PinRead(number, val))
               /\ UNCHANGED <<available, allocated, exported, edgeFile, value, orphan>>

\* the available_pins setter of Gpio
set_available_pins(pins) ==
    /\ available' = pins
    /\ last' = Call("available_pins", 0, Ok, None, <<>>)
    /\ UNCHANGED <<allocated, handlers, exported, edgeFile, value, orphan>>

\* the callback setter of Pin, on a Pin the registry holds
set_callback(number, callback) ==
    /\ number \in DOMAIN allocated
    /\ allocated' = [allocated EXCEPT ![number].callback = callback]
    /\ last' = Call("callback", number, Ok, None, <<>>)
    /\ UNCHANGED <<available, handlers, exported, edgeFile, value, orphan>>

----------------------------------------------------------------------------
(* The line and the event loop *)

\* The level of line `number' changes.  When the line is exported with a
\* matching edge setting the kernel flags its value file, and when the poll
\* queue holds a handler for the pin the loop calls it: _poll_queue_event.
line_edge(number) ==
    LET level == 1 - value[number]
        notified == /\ number \in exported
                    /\ EdgeMatches(edgeFile[number], level)
                    /\ number \in handlers
                    /\ number \in DOMAIN allocated
    IN  /\ value' = [value EXCEPT ![number] = level]
        /\ last' = Call("edge", number, Ok, None,
                         IF notified THEN poll_queue_event(allocated[number], level)
                                     ELSE <<>>)
        /\ UNCHANGED <<available, allocated, handlers, exported, edgeFile, orphan>>

\* The Pins that are in no map are reclaimed (the caller lets go of them, or
\* the collector finds them): their file objects are closed with them.
reclaim ==
    /\ orphan
    /\ orphan' = FALSE
    /\ last' = Call("reclaim", 0, Ok, None, <<IO("close value", 0, "")>>)
    /\ UNCHANGED <<available, allocated, handlers, exported, edgeFile, value>>

----------------------------------------------------------------------------
(* The specification *)

\* Gpio.__init__ with the poll queue and the available pins given; no pin is
\* exported and every line is low
Init ==
    /\ available \in SUBSET PinNumbers
    /\ allocated = <<>>
    /\ handlers = {}
    /\ exported = {}
    /\ edgeFile = [n \in PinNumbers |-> "none"]
    /\ value = [n \in PinNumbers |-> 0]
    /\ orphan = FALSE
    /\ last = Call("init", 0, Ok, None, <<>>)

Next ==
    \/ \E n \in PinNumbers, d \in DirectionArgs, cb \in CallbackArgs,
          e \in EdgeArgs, al \in ActiveLowArgs : alloc_pin(n, d, cb, e, al)
    \/ \E n \in PinNumbers : dealloc_pin(n)
    \/ \E n \in PinNumbers : get_pin(n)
    \/ \E n \in PinNumbers : set_pin(n)
    \/ \E n \in PinNumbers : reset_pin(n)
    \/ \E n \in PinNumbers : get_pin_state(n)
    \/ \E pins \in SUBSET PinNumbers : set_available_pins(pins)
    \/ \E n \in PinNumbers, cb \in CallbackArgs : set_callback(n, cb)
    \/ \E n \in PinNumbers : line_edge(n)
    \/ reclaim

Spec == Init /\ [][Next]_vars

\* The same registry over two pins, with fewer edge and active_low arguments
FramePins == 1..MaxFramePin
FrameEdgeArgs == {None, BOTH}
FrameActiveLowArgs == {ACTIVE_LOW_OFF, 2}

InitFrame ==
    /\ available \in SUBSET FramePins
    /\ allocated = <<>>
    /\ handlers = {}
    /\ exported = {}
    /\ edgeFile = [n \in FramePins |-> "none"]
    /\ value = [n \in FramePins |-> 0]
    /\ orphan = FALSE
    /\ last = Call("init", 0, Ok, None, <<>>)

NextFrame ==
    \/ \E n \in FramePins, d \in DirectionArgs, cb \in CallbackArgs,
          e \in FrameEdgeArgs, al \in FrameActiveLowArgs : alloc_pin(n, d, cb, e, al)
    \/ \E n \in FramePins : dealloc_pin(n)
    \/ \E n \in FramePins : get_pin(n)
    \/ \E n \in FramePins : set_pin(n)
    \/ \E n \in FramePins : reset_pin(n)
    \/ \E n \in FramePins : get_pin_state(n)
    \/ \E pins \in SUBSET FramePins : set_available_pins(pins)
    \/ \E n \in FramePins, cb \in CallbackArgs : set_callback(n, cb)
    \/ \E n \in FramePins : line_edge(n)
    \/ reclaim

SpecFrame == InitFrame /\ [][NextFrame]_vars

----------------------------------------------------------------------------
(* Properties *)

\* the entries of an effect log that are for file (or loop method) f
Only(io, f) == SelectSeq(io, LAMBDA x : x[1] = f)

\* the registry's own state and what it did to sysfs and to the loop are as
\* they were
NoSideEffect ==
    /\ last'.io = <<>>
    /\ UNCHANGED <<available, allocated, handlers, exported, edgeFile, value, orphan>>

\* Every step that leaves last.op = "alloc_pin" is a step of alloc_pin for the
\* number last.n (and likewise for the other methods), so a property of the
\* calls of a method is stated on the steps that set last.op to its name; the
\* arguments that `last' does not keep are quantified over.

\* C1: alloc_pin of an available number that is a key of allocatedPins (an
\* earlier alloc_pin of it returned and no dealloc_pin followed) fails with
\* PinAlreadyAllocatedError, writes nothing to export and leaves
\* allocatedPins as it was, whatever the direction of the first allocation.
C1_SecondAllocRejected ==
    [][(/\ last'.op = "alloc_pin"
        /\ last'.n \in available
        /\ last'.n \in DOMAIN allocated)
       => /\ last'.result = PinAlreadyAllocatedError
          /\ Only(last'.io, "export") = <<>>
          /\ allocated' = allocated]_vars

\* a second alloc_pin of a pin allocated as an output was rejected
C1_Witness ==
    /\ last.op = "alloc_pin"
    /\ last.result = PinAlreadyAllocatedError
    /\ last.n \in DOMAIN allocated
    /\ allocated[last.n].direction.s = OUTPUT

\* C2: alloc_pin of a number outside the available set fails with
\* InvalidPinError for every direction, callback, edge and active_low; no
\* export write, no Pin, no registration, allocatedPins as it was.
C2_UnavailableRejected ==
    [][(last'.op = "alloc_pin" /\ last'.n \notin available)
       => /\ last'.result = InvalidPinError
          /\ last'.ret = None
          /\ NoSideEffect]_vars

\* alloc_pin of an unavailable number was rejected
C2_Witness ==
    /\ last.op = "alloc_pin"
    /\ last.result = InvalidPinError
    /\ last.n \notin available

\* C3: alloc_pin of an available, unallocated pin with a valid direction, a
\* callback and an edge that is absent or not in EDGES fails with
\* InvalidEdgeError before the export write and before the value file is
\* opened; the pin is not allocated afterwards.
C3_EdgeRequiredWithCallback ==
    [][(/\ last'.op = "alloc_pin"
        /\ last'.n \in available
        /\ last'.n \notin DOMAIN allocated)
       => \A d \in DirectionArgs, cb \in CallbackArgs, e \in EdgeArgs, al \in ActiveLowArgs :
            (/\ d.s \in DIRECTIONS /\ cb # None /\ e \notin EDGES
             /\ alloc_pin(last'.n, d, cb, e, al))
            => /\ last'.result = InvalidEdgeError
               /\ last'.io = <<>>
               /\ exported' = exported
               /\ last'.n \notin DOMAIN allocated']_vars

\* alloc_pin was rejected for its edge, on a pin that is not exported
C3_Witness ==
    /\ last.op = "alloc_pin"
    /\ last.result = InvalidEdgeError
    /\ last.n \notin exported

\* the elements of a sequence
Range(q) == {q[i] : i \in 1..Len(q)}

\* C4: right after alloc_pin(n, INPUT, cb, BOTH) has returned the Pin of an
\* available, unallocated pin, a change of the line's level to v is delivered
\* to the pin: one read of the pin, then one call of cb with (pin, v).
C4_EdgeInvokesCallback ==
    [][(/\ last'.op = "edge"
        /\ last.op = "alloc_pin" /\ last.result = Ok /\ last.n = last'.n
        /\ allocated[last.n].direction.s = INPUT
        /\ callable(allocated[last.n].callback)
        /\ IO("edge", last.n, BOTH) \in Range(last.io))
       => last'.io = PinRead(last.n, value'[last.n])
                     \o <<IO("callback", last.n, Decimal(value'[last.n]))>>]_vars

\* C5: alloc_pin of an available, unallocated number with direction INPUT
\* (the module's constant, as main.run passes it) and otherwise valid
\* arguments returns the Pin; the pin is then a key of allocatedPins and
\* registered with the event loop.
C5_InputAllocSucceeds ==
    [][(/\ last'.op = "alloc_pin"
        /\ last'.n \in available
        /\ last'.n \notin DOMAIN allocated)
       => \A d \in DirectionArgs, cb \in CallbackArgs, e \in EdgeArgs, al \in ActiveLowArgs :
            (/\ d = [s |-> INPUT, same |-> TRUE]
             /\ e \in EDGES \cup {None}
             /\ cb # None => e \in EDGES
             /\ al \in ACTIVE_LOW_MODES
             /\ alloc_pin(last'.n, d, cb, e, al))
            => /\ last'.result = Ok
               /\ last'.ret = "Pin"
               /\ last'.n \in DOMAIN allocated'
               /\ last'.n \in handlers']_vars

\* C6: an alloc_pin that fails with one of the validation errors has written
\* nothing, opened nothing and changed neither allocatedPins nor the loop's
\* registrations.
C6_ValidationBeforeEffects ==
    [][(last'.op = "alloc_pin" /\ last'.result \in ValidationErrors)
       => NoSideEffect]_vars

\* C7: get_pin, set_pin and reset_pin of a number that is not a key of
\* allocatedPins fail with PinNotAllocatedError, the error of dealloc_pin and
\* get_pin_state, with no value I/O and no change of state.
C7_LookupFailsNotAllocated ==
    [][(/\ last'.op \in {"get_pin", "set_pin", "reset_pin"}
        /\ last'.n \notin DOMAIN allocated)
       => /\ last'.result = PinNotAllocatedError
          /\ NoSideEffect]_vars

\* C8: dealloc_pin of a number that is not a key of allocatedPins fails with
\* PinNotAllocatedError: no unexport write, no deregistration, allocatedPins
\* (and the rest of the state) as it was.
C8_DeallocUnallocatedRejected ==
    [][(last'.op = "dealloc_pin" /\ last'.n \notin DOMAIN allocated)
       => /\ last'.result = PinNotAllocatedError
          /\ NoSideEffect]_vars

\* dealloc_pin was rejected for a line that is exported (a failed alloc_pin
\* left it so) and it still is
C8_Witness ==
    /\ last.op = "dealloc_pin"
    /\ last.result = PinNotAllocatedError
    /\ last.n \notin DOMAIN allocated
    /\ last.n \in exported

\* the errors alloc_pin raises before it looks for the pin's directory
AllocRejections == {InvalidPinError, PinAlreadyAllocatedError,
                    InvalidDirectionError, InvalidEdgeError}

\* C9: an alloc_pin that passes the validation writes nothing to export when
\* the pin's directory exists and writes the pin number to it, once and first,
\* when it does not; either way the Pin is then constructed: the value file
\* is opened and the direction written.
C9_ExportOnlyIfAbsent ==
    [][(last'.op = "alloc_pin" /\ last'.result \notin AllocRejections)
       => LET n  == last'.n
              io == last'.io
              k  == IF n \in exported THEN 0 ELSE 1
          IN  /\ Only(io, "export") =
                   (IF n \in exported THEN <<>> ELSE <<IO("export", n, Decimal(n))>>)
              /\ Len(io) >= k + 2
              /\ k = 1 => io[1] = IO("export", n, Decimal(n))
              /\ io[k + 1] = IO("open value", n, "r+")
              /\ io[k + 2][1] = "direction" /\ io[k + 2][2] = n
              /\ io[k + 2][3] \in DIRECTIONS
              /\ n \in exported']_vars

\* alloc_pin returned a Pin for a pin whose directory existed: the first
\* thing it did was to open the value file
C9_Witness ==
    /\ last.op = "alloc_pin"
    /\ last.result = Ok
    /\ last.io # <<>>
    /\ last.io[1] = IO("open value", last.n, "r+")

\* C10: a dealloc_pin of an allocated pin writes the number to unexport, then
\* (for an input pin only) asks the loop to drop the handler, then deletes
\* the map entry; afterwards the number is no key of allocatedPins, the loop
\* holds no handler for it and _check_pin_validity does not find it
\* allocated.
C10_DeallocOrder ==
    [][(last'.op = "dealloc_pin" /\ last'.n \in DOMAIN allocated)
       => LET n   == last'.n
              io  == last'.io
              une == IO("unexport", n, Decimal(n))
              rem == IO("remove_handler", n, "")
              del == IO("del", n, "")
          IN  /\ last'.result = Ok
              /\ io \in {<<une, del>>, <<une, rem, del>>}
              /\ rem \in Range(io) => allocated[n].direction.s = INPUT
              /\ n \notin exported'
              /\ n \notin DOMAIN allocated'
              /\ n \notin handlers'
              /\ check_pin_validity(n, available', allocated')
                   # PinAlreadyAllocatedError]_vars

\* a pin was deallocated
C10_Witness ==
    /\ last.op = "dealloc_pin"
    /\ last.result = Ok
    /\ last.n \notin DOMAIN allocated
    /\ last.n \notin exported

----------------------------------------------------------------------------
(* Handles, watches and frames *)

\* C11: a successful dealloc_pin(n) closes the value handle that alloc_pin(n)
\* opened: when every open value handle belonged to an allocated pin before
\* the call, the same is true after it (no handle of an unmapped Pin is open).
C11_DeallocClosesHandle ==
    [][(/\ last'.op = "dealloc_pin"
        /\ last'.result = Ok
        /\ ~orphan)
       => ~orphan']_vars

C13_FailureFrame ==
    [][(/\ last'.op \in {"alloc_pin", "set_pin", "reset_pin", "get_pin_state"}
        /\ last'.result # Ok)
       => /\ \A m \in FramePins \ {last'.n} :
                /\ (m \in DOMAIN allocated) <=> (m \in DOMAIN allocated')
                /\ m \in DOMAIN allocated => allocated'[m] = allocated[m]
                /\ (m \in handlers) <=> (m \in handlers')
                /\ m \in exported <=> m \in exported'
                /\ edgeFile'[m] = edgeFile[m] /\ value'[m] = value[m]
          /\ \A i \in 1..Len(last'.io) : last'.io[i][2] = last'.n]_vars

C13_Witness ==
    /\ last.op = "alloc_pin"
    /\ last.result = InvalidActiveLowError
    /\ last.n \in exported
    /\ \E m \in DOMAIN allocated : m # last.n /\ allocated[m].direction.s = INPUT

\* C14: in every reachable state every allocated Pin with direction INPUT
\* and a callback has an edge setting among RISING, FALLING and BOTH (the
\* Pin keeps no edge of its own: its edge is the content of its edge file).
C14_CallbackImpliesEdge ==
    \A n \in DOMAIN allocated :
        (allocated[n].direction.s = INPUT /\ callable(allocated[n].callback))
        => edgeFile[n] \in EDGES

\* C15: every pin the loop holds a handler for is an allocated pin with
\* direction INPUT; an alloc_pin that allocates an OUTPUT pin issues no
\* add_handler and no remove_handler and leaves the pin without a handler;
\* a dealloc_pin of an OUTPUT pin issues the unexport write and the removal
\* from the map and nothing else, and dealloc_pin issues a remove_handler
\* only for a pin whose direction is INPUT.
C15_OnlyInputsWatched ==
    [][/\ \A n \in handlers' :
              n \in DOMAIN allocated' /\ allocated'[n].direction.s = INPUT
       /\ (/\ last'.op = "alloc_pin"
            /\ last'.result = Ok
            /\ allocated'[last'.n].direction.s = OUTPUT)
           => /\ Only(last'.io, "add_handler") = <<>>
              /\ Only(last'.io, "remove_handler") = <<>>
              /\ last'.n \notin handlers'
       /\ (/\ last'.op = "dealloc_pin"
            /\ last'.n \in DOMAIN allocated
            /\ allocated[last'.n].direction.s # INPUT)
           => /\ last'.io = <<IO("unexport", last'.n, Decimal(last'.n)),
                               IO("del", last'.n, "")>>
              /\ last'.n \notin exported'
              /\ handlers' = handlers]_vars

C15_Witness ==
    /\ last.op = "alloc_pin"
    /\ last.result = Ok
    /\ allocated[last.n].direction.s = OUTPUT
    /\ callable(allocated[last.n].callback)
    /\ last.n \in exported
    /\ last.n \notin handlers

\* C16: set() writes '1' and reset() writes '0' through the handle the Pin
\* keeps, and the store then holds that level; a read that comes next on
\* the same pin returns 1 after set() and 0 after reset(), whatever set,
\* reset and read calls came before.  Every write and every read through
\* the handle is followed by a seek to position 0, and no set, reset or read
\* opens the value file again.
C16_WriteThenRead ==
    [][/\ (last'.op = "set_pin" /\ last'.result = Ok)
           => /\ last'.io = <<IO("write value", last'.n, SYSFS_GPIO_VALUE_HIGH),
                               IO("seek value", last'.n, "0")>>
              /\ value'[last'.n] = 1
       /\ (last'.op = "reset_pin" /\ last'.result = Ok)
           => /\ last'.io = <<IO("write value", last'.n, SYSFS_GPIO_VALUE_LOW),
                               IO("seek value", last'.n, "0")>>
              /\ value'[last'.n] = 0
       /\ (/\ last.op = "set_pin" /\ last.result = Ok
            /\ last'.op = "get_pin_state" /\ last'.n = last.n)
           => /\ last'.ret = "True"
              /\ Only(last'.io, "read value") = <<IO("read value", last.n, "1")>>
       /\ (/\ last.op = "reset_pin" /\ last.result = Ok
            /\ last'.op = "get_pin_state" /\ last'.n = last.n)
           => /\ last'.ret = "False"
              /\ Only(last'.io, "read value") = <<IO("read value", last.n, "0")>>
       /\ last'.op \in {"set_pin", "reset_pin", "get_pin_state", "edge"}
           => /\ Only(last'.io, "open value") = <<>>
              /\ \A i \in 1..Len(last'.io) :
                    last'.io[i][1] \in {"write value", "read value"}
                    => /\ i < Len(last'.io)
                       /\ last'.io[i + 1] = IO("seek value", last'.n, "0")]_vars

C16_Witness ==
    /\ last.op = "get_pin_state"
    /\ last.ret = "True"
    /\ last.n \in DOMAIN allocated
    /\ allocated[last.n].direction.s = OUTPUT
    /\ last.io = PinRead(last.n, 1)

\* C18: a failed alloc_pin(n) leaves nothing behind: in every reachable
\* state every line that the registry exported and has not unexported is a
\* key of the map of allocated pins.
C18_ExportedAreAllocated ==
    exported \subseteq DOMAIN allocated

\* C19, as claimed: a remove_handler is requested only for a pin the loop
\* holds a handler for at that moment.
C19_DeregisterOnlyRegistered ==
    [][\A i \in 1..Len(last'.io) :
          last'.io[i][1] = "remove_handler" => last'.io[i][2] \in handlers]_vars

\* C19, amended: a remove_handler is requested only by get_pin_state(n) and
\* dealloc_pin(n), only for pin n, and only when n is allocated with
\* direction input, whether or not the loop holds a handler for n:
\* get_pin_state(n) requests it once for every allocated pin whose direction
\* equals 'in' (so a second get_pin_state(n) requests it again), and
\* dealloc_pin(n) requests it once exactly when the pin's direction is the
\* INPUT object itself.
C19_DeregisterInputs ==
    [][LET n    == last'.n
           rems == Only(last'.io, "remove_handler")
       IN  /\ rems # <<>>
               => /\ last'.op \in {"get_pin_state", "dealloc_pin"}
                  /\ rems = <<IO("remove_handler", n, "")>>
                  /\ n \in DOMAIN allocated
                  /\ allocated[n].direction.s = INPUT
           /\ (last'.op = "get_pin_state" /\ n \in DOMAIN allocated)
               => (rems # <<>> <=> allocated[n].direction.s = INPUT)
           /\ (last'.op = "dealloc_pin" /\ n \in DOMAIN allocated)
               => (rems # <<>> <=> allocated[n].direction = [s |-> INPUT, same |-> TRUE])]_vars

C19_Witness ==
    /\ last.op = "get_pin_state"
    /\ Only(last.io, "remove_handler") = <<IO("remove_handler", last.n, "")>>
    /\ handlers = {}
    /\ last.n \in DOMAIN allocated
    /\ allocated[last.n].direction = [s |-> INPUT, same |-> FALSE]

\* C20, as claimed: in every reachable state every key n of the map of
\* allocated pins is a member of the current available set, and the Pin
\* stored under n has number n.
C20_AllocatedAreAvailable ==
    \A n \in DOMAIN allocated : n \in available /\ allocated[n].number = n

\* C20, amended: the Pin stored under a key n has number n; a key n enters
\* the map only by an alloc_pin(n) that finds n in the available set, and
\* an allocated n leaves the available set only by an assignment to
\* available_pins, which leaves the allocation as it is.
C20_AllocatedWereAvailable ==
    [][/\ \A n \in DOMAIN allocated' :
              /\ allocated'[n].number = n
              /\ n \notin DOMAIN allocated
                  => /\ last'.op = "alloc_pin" /\ last'.n = n
                     /\ n \in available /\ n \in available'
       /\ \A n \in DOMAIN allocated :
              (n \in available /\ n \notin available')
              => last'.op = "available_pins" /\ allocated' = allocated]_vars

C20_Witness ==
    /\ last.op = "available_pins"
    /\ \E n \in DOMAIN allocated : n \notin available /\ allocated[n].number = n


====
